---- MODULE Spec2Model ----
(***************************************************************************)
(* Win-rate regression pipeline of LudiiMCTSVariations:                    *)
(*   train_krr_winrate.py  (parse_out_file, normalize_name, build_dataset) *)
(*   tune_krr_winrate.py   (build_feature_matrix, tune_and_save,           *)
(*                          predict_winrate)                               *)
(* Text is a sequence of one-character strings.  None and NaN stand for    *)
(* Python's None and pandas' NaN where text is expected, NoneNum and       *)
(* NanNum where a number or an object is; a number n is Num(n).            *)
(***************************************************************************)
EXTENDS Integers, Sequences, FiniteSets, TLC

VARIABLES
    games_df,      \* the property table, as read by pd.read_csv(GAME_PROPS)
    game_name,     \* name matching: the name being resolved
    mapped,        \* name matching: outcome of the last resolution
    log,           \* parse_out_file: lines of the .out file being parsed
    parsed,        \* parse_out_file: what the last call returned or raised
    variant,       \* variant splitting: the variant string
    parts,         \* variant splitting: the components at both call sites
    results_dir,   \* build_dataset: the files of slurm_jobs/results
    dataset,       \* build_dataset: what the last call returned or raised
    df,            \* tuner: the rows of krr_dataset.csv as load_dataset reads them
    OUT_MODEL,     \* krr_kcv_model.joblib: absent or the persisted pipeline
    OUT_FEATURES,  \* krr_feature_names.json: absent or the persisted name list
    X,             \* tuner: the matrix build_feature_matrix produced
    prediction,    \* predict_winrate: outcome of the last call
    OUT_METRICS,   \* krr_kcv_metrics.json: absent or the persisted metrics
    tuner,         \* tune_krr_winrate.py main: the run in progress and its position
    reader         \* predict_winrate in progress: its position and what it loaded

vars == <<games_df, game_name, mapped, log, parsed, variant, parts, results_dir,
          dataset, df, OUT_MODEL, OUT_FEATURES, X, prediction, OUT_METRICS, tuner,
          reader>>

persistVars == <<OUT_METRICS, tuner, reader>>

None == <<"None">>
NaN == <<"NaN">>
NoneNum == [none |-> TRUE]
NanNum == [nan |-> TRUE]
Num(n) == [num |-> n]

(***************************************************************************)
(* Bounds of the model.                                                    *)
(***************************************************************************)
MaxNameLen == 2
MaxGames == 2
MaxLines == 3
MaxVariantLen == 5
MaxJobs == 2
MaxRows == 2

StringsUpTo(A, n) == UNION {[1..k -> A] : k \in 0..n}

(***************************************************************************)
(* str methods used by the scripts.                                        *)
(***************************************************************************)
UpperChars == <<"H", "E", "X", "A", "B">>
LowerChars == <<"h", "e", "x", "a", "b">>
DigitChars == {"0", "1", "2", "3", "4", "5", "6", "7", "8", "9"}
Whitespace == {" "}

\* str.lower on one character
Lower(c) ==
    IF \E i \in DOMAIN UpperChars : UpperChars[i] = c
    THEN LowerChars[CHOOSE i \in DOMAIN UpperChars : UpperChars[i] = c]
    ELSE c

\* the characters re '[^a-z0-9]' leaves in place
IsLowerAlnum(c) == c \in DigitChars \/ \E i \in DOMAIN LowerChars : LowerChars[i] = c

\* str.startswith
StartsWith(s, p) == Len(p) <= Len(s) /\ SubSeq(s, 1, Len(p)) = p

\* str.find(sub) >= 0
Finds(s, sub) ==
    \E i \in 0..(Len(s) - Len(sub)) : SubSeq(s, i + 1, i + Len(sub)) = sub

\* str.strip
RECURSIVE LStrip(_)
LStrip(s) == IF s # <<>> /\ Head(s) \in Whitespace THEN LStrip(Tail(s)) ELSE s

RECURSIVE RStrip(_)
RStrip(s) ==
    IF s # <<>> /\ s[Len(s)] \in Whitespace THEN RStrip(SubSeq(s, 1, Len(s) - 1)) ELSE s

Strip(s) == RStrip(LStrip(s))

(***************************************************************************)
(* normalize_name, and the name matching of build_dataset and              *)
(* predict_winrate.                                                        *)
(***************************************************************************)
IsStr(s) == s # NaN /\ s # None

normalize_name(s) ==
    IF ~IsStr(s) THEN <<>>
    ELSE SelectSeq([i \in DOMAIN s |-> Lower(s[i])], IsLowerAlnum)

\* d[k] = v on an insertion-ordered dict kept as a sequence of items
DictSet(d, k, v) ==
    IF \E i \in DOMAIN d : d[i].n = k
    THEN [i \in DOMAIN d |-> IF d[i].n = k THEN [n |-> k, g |-> v] ELSE d[i]]
    ELSE Append(d, [n |-> k, g |-> v])

\* dict(zip(games_df['_norm'], games_df['game']))
RECURSIVE DictZip(_, _)
DictZip(rows, d) ==
    IF rows = <<>> THEN d
    ELSE DictZip(Tail(rows), DictSet(d, normalize_name(Head(rows).game), Head(rows).game))

norm_to_game(table) == DictZip(table, <<>>)

\* dict.get(k)
DictGet(d, k) ==
    IF \E i \in DOMAIN d : d[i].n = k
    THEN d[CHOOSE i \in DOMAIN d : d[i].n = k].g
    ELSE None

\* the condition of the fuzzy scan on one item
FuzzyTest(n, norm) ==
    \/ n = norm
    \/ StartsWith(n, norm)
    \/ StartsWith(norm, n)
    \/ Finds(n, norm)
    \/ Finds(norm, n)

\* for n, g in d.items(): if <test>: found = g; break
FuzzyScan(d, norm) ==
    IF \E i \in DOMAIN d : FuzzyTest(d[i].n, norm)
    THEN LET first == CHOOSE i \in DOMAIN d :
                          /\ FuzzyTest(d[i].n, norm)
                          /\ \A j \in 1..(i - 1) : ~FuzzyTest(d[j].n, norm)
         IN d[first].g
    ELSE None

\* a matcher that goes to the scan without looking the key up
MatchScanOnly(table, name) ==
    LET d == norm_to_game(table)
        norm == normalize_name(name)
        found == FuzzyScan(d, norm)
    IN [game |-> found, via |-> IF found = None THEN "none" ELSE "fuzzy"]

\* predict_winrate lines 145-157: the resolution of the queried name; via is
\* the branch that produced it ("none": ValueError is raised)
MatchGamePredict(table, name) ==
    LET norm_map == norm_to_game(table)
        norm == normalize_name(name)
        exact == DictGet(norm_map, norm)
        scanned == FuzzyScan(norm_map, norm)
    IN IF exact # None THEN [game |-> exact, via |-> "exact"]
       ELSE IF scanned # None THEN [game |-> scanned, via |-> "fuzzy"]
       ELSE [game |-> None, via |-> "none"]

\* build_dataset lines 106-119: the resolution of a parsed game name; via is
\* the branch that produced it ("none": the job is skipped)
MatchGame(table, name) ==
    LET d == norm_to_game(table)
        norm == normalize_name(name)
        exact == DictGet(d, norm)
        found == FuzzyScan(d, norm)
    IN IF exact # None THEN [game |-> exact, via |-> "exact"]
       ELSE IF found # None THEN [game |-> found, via |-> "fuzzy"]
       ELSE [game |-> None, via |-> "none"]

(***************************************************************************)
(* parse_out_file.  A line of the log is a record:                         *)
(*   blank     only whitespace                                             *)
(*   labelled  "<label><text>", label one of the spellings below           *)
(*   summary   "completed=<completed>/<total>, wins=<wins>, losses=..,     *)
(*              draws=.., failures=.., avgMoves=<avg>": completed, total   *)
(*             and wins are digit strings, avg is the rest of the line     *)
(*   meta      "moveTime=<avg>"                                            *)
(*   text      anything else                                               *)
(***************************************************************************)
Blank == [kind |-> "blank", label |-> "", text |-> <<>>, completed |-> <<>>,
          total |-> <<>>, wins |-> <<>>, avg |-> <<>>]
Labelled(l, t) == [Blank EXCEPT !.kind = "labelled", !.label = l, !.text = t]
Summary(c, t, w, a) ==
    [Blank EXCEPT !.kind = "summary", !.completed = c, !.total = t, !.wins = w, !.avg = a]
Meta(a) == [Blank EXCEPT !.kind = "meta", !.avg = a]
Text == [Blank EXCEPT !.kind = "text"]

\* GAME_RE, VARIANT_RE: '^Game:\s*(.+)$' and '^Variant:\s*(.+)$', IGNORECASE,
\* on the stripped line
GameLabels == {"Game:", "GAME:", "game:"}
VariantLabels == {"Variant:", "VARIANT:", "variant:"}
GAME_RE(line) ==
    line.kind = "labelled" /\ line.label \in GameLabels /\ Strip(line.text) # <<>>
VARIANT_RE(line) ==
    line.kind = "labelled" /\ line.label \in VariantLabels /\ Strip(line.text) # <<>>

\* the longest prefix matching [0-9.]+ (the regex is greedy)
RECURSIVE FloatToken(_)
FloatToken(s) ==
    IF s # <<>> /\ (Head(s) \in DigitChars \/ Head(s) = ".")
    THEN <<Head(s)>> \o FloatToken(Tail(s))
    ELSE <<>>

\* COMPLETED_RE.search(line)
COMPLETED_RE(line) ==
    /\ line.kind = "summary"
    /\ line.completed # <<>> /\ line.total # <<>> /\ line.wins # <<>>
    /\ FloatToken(line.avg) # <<>>

DigitValue(c) ==
    CASE c = "0" -> 0 [] c = "1" -> 1 [] c = "2" -> 2 [] c = "3" -> 3 [] c = "4" -> 4
      [] c = "5" -> 5 [] c = "6" -> 6 [] c = "7" -> 7 [] c = "8" -> 8 [] c = "9" -> 9

\* int(digits)
RECURSIVE ParseInt(_)
ParseInt(s) ==
    IF s = <<>> THEN 0 ELSE 10 * ParseInt(SubSeq(s, 1, Len(s) - 1)) + DigitValue(s[Len(s)])

IsDot(c) == c = "."
IsDigit(c) == c \in DigitChars

\* float(token) raises ValueError unless the token has a digit and at most one point
FloatRaises(tok) == Len(SelectSeq(tok, IsDot)) > 1 \/ SelectSeq(tok, IsDigit) = <<>>

\* a float as mantissa and number of decimals, trailing zero decimals dropped
RECURSIVE FloatNorm(_, _)
FloatNorm(m, e) ==
    IF e > 0 /\ m % 10 = 0 THEN FloatNorm(m \div 10, e - 1) ELSE [m |-> m, e |-> e]

\* float(token) for a token that does not raise
RECURSIVE DecimalsOf(_)
DecimalsOf(tok) ==
    IF tok = <<>> \/ SelectSeq(tok, IsDot) = <<>> THEN 0
    ELSE IF Head(tok) = "." THEN Len(tok) - 1 ELSE DecimalsOf(Tail(tok))

ParseFloat(tok) == FloatNorm(ParseInt(SelectSeq(tok, IsDigit)), DecimalsOf(tok))

EmptyData == [game |-> None, variant |-> None, wins |-> NoneNum, games |-> NoneNum,
              avgMoves |-> NoneNum]

\* an iteration that keeps a field once it is set
ParseLineFirstWins(data, line) ==
    IF line.kind = "blank" THEN data
    ELSE IF GAME_RE(line)
    THEN IF data.game = None THEN [data EXCEPT !.game = Strip(line.text)] ELSE data
    ELSE IF VARIANT_RE(line)
    THEN IF data.variant = None THEN [data EXCEPT !.variant = Strip(line.text)] ELSE data
    ELSE IF COMPLETED_RE(line)
    THEN IF data.wins = NoneNum
         THEN [data EXCEPT !.wins = Num(ParseInt(line.wins)),
                           !.games = Num(ParseInt(line.completed)),
                           !.avgMoves = ParseFloat(FloatToken(line.avg))]
         ELSE data
    ELSE data

\* lines 44-64: one iteration of the loop of parse_out_file, for a line on
\* which float() does not raise
ParseLine(data, line) ==
    IF line.kind = "blank" THEN data
    ELSE IF GAME_RE(line) THEN [data EXCEPT !.game = Strip(line.text)]
    ELSE IF VARIANT_RE(line) THEN [data EXCEPT !.variant = Strip(line.text)]
    ELSE IF COMPLETED_RE(line)
    THEN [data EXCEPT !.wins = Num(ParseInt(line.wins)),
                      !.games = Num(ParseInt(line.completed)),
                      !.avgMoves = ParseFloat(FloatToken(line.avg))]
    ELSE data

\* line 60 raises on this line
LineRaises(line) ==
    /\ line.kind # "blank" /\ ~GAME_RE(line) /\ ~VARIANT_RE(line)
    /\ COMPLETED_RE(line)
    /\ FloatRaises(FloatToken(line.avg))

RECURSIVE ParseLines(_, _)
ParseLines(lines, data) ==
    IF lines = <<>> THEN [status |-> "ok", data |-> data]
    ELSE IF LineRaises(Head(lines)) THEN [status |-> "ValueError", data |-> EmptyData]
    ELSE ParseLines(Tail(lines), ParseLine(data, Head(lines)))

\* parse_out_file(path) on a file holding these lines
parse_out_file(lines) == ParseLines(lines, EmptyData)

(***************************************************************************)
(* Variant splitting: build_dataset lines 143-148, predict_winrate lines   *)
(* 175-183.                                                                *)
(***************************************************************************)
\* str.split('|')
RECURSIVE SplitBar(_)
SplitBar(s) ==
    IF \E i \in DOMAIN s : s[i] = "|"
    THEN LET i == CHOOSE i \in DOMAIN s : s[i] = "|" /\ \A j \in 1..(i - 1) : s[j] # "|"
         IN <<SubSeq(s, 1, i - 1)>> \o SplitBar(SubSeq(s, i + 1, Len(s)))
    ELSE <<s>>

\* [p.strip() for p in v.split('|')]
StrippedTokens(v) == LET raw == SplitBar(v) IN [i \in DOMAIN raw |-> Strip(raw[i])]

\* while len(parts) < 4: parts.append('')
RECURSIVE PadTo4(_)
PadTo4(ps) == IF Len(ps) < 4 THEN PadTo4(Append(ps, <<>>)) ELSE ps

\* the components without the slice that keeps the first four
SplitVariantNoSlice(v) ==
    PadTo4(StrippedTokens(IF v = None THEN <<>> ELSE v))

\* build_dataset: v = parsed.get('variant') or ''; ...; parts[:4]
SplitVariant(v) ==
    SubSeq(PadTo4(StrippedTokens(IF v = None \/ v = <<>> THEN <<>> ELSE v)), 1, 4)

\* predict_winrate lines 175-177: the stripped tokens, padded
PartsOf(v) == PadTo4(StrippedTokens(v))

\* predict_winrate lines 178-183: parts[0], parts[1], parts[2], parts[3], in
\* the order of comp_cols
variant_by_comp(ps) == <<ps[1], ps[2], ps[3], ps[4]>>

SplitVariantPredict(v) == variant_by_comp(PartsOf(v))

(***************************************************************************)
(* build_dataset.  A file of the results directory is a record: base and   *)
(* ext are the two halves of its name around the last '.', stat is its     *)
(* size or OSError when os.path.getsize raises, lines its text.  Bases     *)
(* are numbers, ordered as sorted() orders the names they stand for.       *)
(* A row of the property table is [game, vals], vals aligned with          *)
(* PropCols; a cell is a number or NaN (an empty cell).                    *)
(***************************************************************************)
PropCols == <<"a", "b">>

OSError == [raises |-> "OSError"]
NoFile == [none |-> TRUE]
File(b, e, st, ls) == [base |-> b, ext |-> e, stat |-> st, lines |-> ls]

\* lines 80-85: bases[base][ext] = f for the .out and .err files
BasesOf(dir) == {f.base : f \in {g \in dir : g.ext \in {"out", "err"}}}
PartOf(dir, b, e) ==
    IF \E f \in dir : f.base = b /\ f.ext = e
    THEN CHOOSE f \in dir : f.base = b /\ f.ext = e
    ELSE NoFile

\* sorted(bases.items())
RECURSIVE SortedBases(_)
SortedBases(bs) ==
    IF bs = {} THEN <<>>
    ELSE LET m == CHOOSE x \in bs : \A y \in bs : x <= y
         IN <<m>> \o SortedBases(bs \ {m})

\* a size test with the comparison turned round
ErrSkipsEmpty(err_file) ==
    /\ err_file # NoFile
    /\ err_file.stat # OSError
    /\ err_file.stat.num = 0

\* lines 92-98: the job is skipped for its .err file
ErrSkips(err_file) ==
    /\ err_file # NoFile
    /\ err_file.stat # OSError
    /\ err_file.stat.num > 0

\* lines 124-140: the metadata pass, for its moveTime tokens (the other four
\* keys are set the same way); a float() that raises ends the pass with what
\* was set before
RECURSIVE MetaScan(_, _)
MetaScan(lines, moveTime) ==
    IF lines = <<>> THEN moveTime
    ELSE LET line == Head(lines)
             tok == FloatToken(line.avg)
         IN IF line.kind = "meta" /\ tok # <<>>
            THEN IF FloatRaises(tok) THEN moveTime
                 ELSE MetaScan(Tail(lines), ParseFloat(tok))
            ELSE MetaScan(Tail(lines), moveTime)

RECURSIVE GCD(_, _)
GCD(a, b) == IF b = 0 THEN a ELSE GCD(b, a % b)

\* wins / games for games > 0, as a fraction in lowest terms
Quotient(w, g) == [num |-> w \div GCD(w, g), den |-> g \div GCD(w, g)]

\* line 160
Winrate(w, g) == IF g.num > 0 THEN Quotient(w.num, g.num) ELSE NanNum

\* line 121: games_df[games_df['game'] == mapped_game].iloc[0]
PropsOf(table, g) ==
    table[CHOOSE i \in DOMAIN table :
              table[i].game = g /\ \A j \in 1..(i - 1) : table[j].game # g]

\* lines 142-173: the row of one job
MakeRow(base, mapped_game, data, lines, table) ==
    LET ps == SplitVariant(data.variant)
        props == PropsOf(table, mapped_game)
    IN [job_base |-> base,
        game |-> mapped_game,
        variant |-> data.variant,
        variant_select |-> ps[1],
        variant_simulation |-> ps[2],
        variant_backprop |-> ps[3],
        variant_finalmove |-> ps[4],
        wins |-> data.wins,
        games |-> data.games,
        winrate |-> Winrate(data.wins, data.games),
        avgMoves |-> data.avgMoves,
        moveTime |-> MetaScan(lines, NoneNum),
        game_ |-> [i \in DOMAIN PropCols |-> props.vals[i]]]

\* line 103
Unusable(data) ==
    data.game = None \/ data.game = <<>> \/ data.wins = NoneNum \/ data.games = NoneNum

\* the loop of lines 88-173 over the sorted bases; an exception of
\* parse_out_file leaves build_dataset
RECURSIVE BuildRows(_, _, _, _)
BuildRows(bs, dir, table, rows) ==
    IF bs = <<>> THEN [status |-> "ok", rows |-> rows]
    ELSE LET base == Head(bs)
             err_file == PartOf(dir, base, "err")
             out_file == PartOf(dir, base, "out")
             res == parse_out_file(out_file.lines)
             m == MatchGame(table, res.data.game)
         IN IF ErrSkips(err_file) THEN BuildRows(Tail(bs), dir, table, rows)
            ELSE IF out_file = NoFile THEN BuildRows(Tail(bs), dir, table, rows)
            ELSE IF res.status # "ok" THEN [status |-> res.status, rows |-> <<>>]
            ELSE IF Unusable(res.data) THEN BuildRows(Tail(bs), dir, table, rows)
            ELSE IF m.game = None THEN BuildRows(Tail(bs), dir, table, rows)
            ELSE BuildRows(Tail(bs), dir, table,
                           Append(rows, MakeRow(base, m.game, res.data, out_file.lines, table)))

build_dataset(dir, table) == BuildRows(SortedBases(BasesOf(dir)), dir, table, <<>>)

(***************************************************************************)
(* The tuner: load_dataset, build_feature_matrix, tune_and_save.  A        *)
(* feature name is a sequence of pieces: <<"game_", col>> for 'game_<col>' *)
(* and <<comp, "=">> \o value for '<comp>=<value>'.                        *)
(***************************************************************************)
comp_cols == <<"variant_select", "variant_simulation", "variant_backprop",
               "variant_finalmove">>

\* a text cell written by to_csv and read back by read_csv: None and ''
\* both come back as NaN
CsvCell(v) == IF v = None \/ v = <<>> THEN NaN ELSE v

\* krr_dataset.csv as load_dataset reads it
load_dataset(rows) ==
    [i \in DOMAIN rows |->
        [rows[i] EXCEPT !.variant = CsvCell(@),
                        !.variant_select = CsvCell(@),
                        !.variant_simulation = CsvCell(@),
                        !.variant_backprop = CsvCell(@),
                        !.variant_finalmove = CsvCell(@)]]

\* code-point order of the characters of variant tokens
CharOrder == <<" ", "=", "A", "B", "C", "|">>
CharIndex(c) == CHOOSE i \in DOMAIN CharOrder : CharOrder[i] = c

\* s <= t as Python orders str
RECURSIVE StrLeq(_, _)
StrLeq(s, t) ==
    IF s = <<>> THEN TRUE
    ELSE IF t = <<>> THEN FALSE
    ELSE IF Head(s) = Head(t) THEN StrLeq(Tail(s), Tail(t))
    ELSE CharIndex(Head(s)) < CharIndex(Head(t))

\* sorted(...)
RECURSIVE SortedStrs(_)
SortedStrs(S) ==
    IF S = {} THEN <<>>
    ELSE LET m == CHOOSE x \in S : \A y \in S : StrLeq(x, y)
         IN <<m>> \o SortedStrs(S \ {m})

\* .fillna(0) on a numeric cell, and np.nan_to_num on a finite or NaN entry
FillNa0(v) == IF v = NanNum THEN Num(0) ELSE v

\* df[comp].fillna('').astype(str)
TokensOf(d, comp) == [i \in DOMAIN d |-> IF d[i][comp] = NaN THEN <<>> ELSE d[i][comp]]

\* sorted([t for t in tokens.unique() if t])
UniqueOf(d, comp) ==
    SortedStrs({TokensOf(d, comp)[i] : i \in DOMAIN d} \ {<<>>})

RECURSIVE FlattenSeq(_)
FlattenSeq(ss) == IF ss = <<>> THEN <<>> ELSE Head(ss) \o FlattenSeq(Tail(ss))

\* num_cols + token_list_all
FeatureNames(d) ==
    [j \in DOMAIN PropCols |-> <<"game_", PropCols[j]>>]
    \o FlattenSeq([c \in DOMAIN comp_cols |->
           LET unique == UniqueOf(d, comp_cols[c])
           IN [k \in DOMAIN unique |-> <<comp_cols[c], "=">> \o unique[k]]])

\* row i of np.hstack([X_num, X_tokens])
MatrixRow(d, i) ==
    [j \in DOMAIN PropCols |-> FillNa0(d[i].game_[j])]
    \o FlattenSeq([c \in DOMAIN comp_cols |->
           LET unique == UniqueOf(d, comp_cols[c])
               v == TokensOf(d, comp_cols[c])[i]
           IN [k \in DOMAIN unique |-> IF v # <<>> /\ unique[k] = v THEN Num(1) ELSE Num(0)]])

build_feature_matrix(d) ==
    [X |-> [i \in DOMAIN d |-> MatrixRow(d, i)], feature_names |-> FeatureNames(d)]

(***************************************************************************)
(* predict_winrate.  The fitted pipeline is opaque: its output on a        *)
(* vector is any of RawOutputs.                                            *)
(***************************************************************************)
NegInf == [inf |-> "-"]
PosInf == [inf |-> "+"]
RawOutputs == {NegInf, Num(-1), Num(1), Num(2), PosInf, NanNum}
ClipLo == 0
ClipHi == 1

\* col.startswith('game_')
IsNumName(col) == col # <<>> /\ Head(col) = "game_"

\* props.get(propname, 0) then float(val)
PropGet(props, propname) ==
    IF Len(propname) = 1 /\ \E j \in DOMAIN PropCols : PropCols[j] = propname[1]
    THEN props.vals[CHOOSE j \in DOMAIN PropCols : PropCols[j] = propname[1]]
    ELSE Num(0)

\* variant_by_comp.get(comp, '')
VariantByCompGet(ps, comp) ==
    IF Len(comp) = 1 /\ \E c \in DOMAIN comp_cols : comp_cols[c] = comp[1]
    THEN variant_by_comp(ps)[CHOOSE c \in DOMAIN comp_cols : comp_cols[c] = comp[1]]
    ELSE <<>>

\* feature.split('=', 1)
EqAt(feature) ==
    CHOOSE i \in DOMAIN feature : feature[i] = "=" /\ \A j \in 1..(i - 1) : feature[j] # "="
CompOf(feature) == SubSeq(feature, 1, EqAt(feature) - 1)
ValOf(feature) == SubSeq(feature, EqAt(feature) + 1, Len(feature))

\* an indicator that looks the value up among all the query's tokens
TokenEntryAnyComp(feature, ps) ==
    IF \E i \in DOMAIN ps : ps[i] # <<>> /\ ps[i] = ValOf(feature) THEN Num(1) ELSE Num(0)

\* lines 184-191: the entry of one token feature; ps is the padded list of
\* all the tokens of the query
TokenEntry(feature, ps) ==
    IF \E i \in DOMAIN feature : feature[i] = "="
    THEN IF VariantByCompGet(ps, CompOf(feature)) = ValOf(feature) THEN Num(1) ELSE Num(0)
    ELSE IF \E i \in DOMAIN ps : ps[i] # <<>> /\ ps[i] = feature THEN Num(1) ELSE Num(0)

IsTokName(col) == ~IsNumName(col)

\* the vector without np.nan_to_num
FeatureVectorRaw(feature_names, props, ps) ==
    LET num_names == SelectSeq(feature_names, IsNumName)
        token_names == SelectSeq(feature_names, IsTokName)
    IN [i \in DOMAIN num_names |-> PropGet(props, Tail(num_names[i]))]
       \o [i \in DOMAIN token_names |-> TokenEntry(token_names[i], ps)]

\* lines 160-195: num_part + token_part, then np.nan_to_num
FeatureVector(feature_names, props, ps) ==
    LET x == FeatureVectorRaw(feature_names, props, ps)
    IN [i \in DOMAIN x |-> FillNa0(x[i])]

\* np.clip(pred, 0.0, 1.0): NaN compares false with both ends and stays
Clip(pred) ==
    IF pred = NanNum THEN NanNum
    ELSE IF pred = NegInf THEN Num(ClipLo)
    ELSE IF pred = PosInf THEN Num(ClipHi)
    ELSE IF pred.num < ClipLo THEN Num(ClipLo)
    ELSE IF pred.num > ClipHi THEN Num(ClipHi)
    ELSE pred

\* an artifact on disk: os.path.isfile and what loading it gives
Absent == [isfile |-> FALSE]
Stored(c) == [isfile |-> TRUE, content |-> c]

NoCall == [raises |-> "", game_name |-> None, variant |-> None, mapped |-> None,
           x |-> <<>>, raw |-> NoneNum, value |-> NoneNum]

\* predict_winrate with the game resolved before the artifacts are looked at
PredictResolveFirst(model, features, table, name, v, raw) ==
    LET m == MatchGamePredict(table, name)
        call == [NoCall EXCEPT !.game_name = name, !.variant = v]
    IN IF m.game = None
       THEN [call EXCEPT !.raises = "ValueError"]
       ELSE IF ~model.isfile \/ ~features.isfile
       THEN [call EXCEPT !.raises = "FileNotFoundError"]
       ELSE [call EXCEPT !.raises = "no", !.mapped = m.game,
                         !.x = FeatureVector(features.content, PropsOf(table, m.game),
                                             PartsOf(v)),
                         !.raw = raw, !.value = Clip(raw)]

\* predict_winrate(game_name, variant) with the artifacts and the table as
\* they are on disk; raw is what model.predict returns
predict_winrate(model, features, table, name, v, raw) ==
    LET m == MatchGamePredict(table, name)
        ps == PartsOf(v)
        x == FeatureVector(features.content, PropsOf(table, m.game), ps)
        call == [NoCall EXCEPT !.game_name = name, !.variant = v]
    IN IF ~model.isfile \/ ~features.isfile
       THEN [call EXCEPT !.raises = "FileNotFoundError"]
       ELSE IF m.game = None
       THEN [call EXCEPT !.raises = "ValueError"]
       ELSE [call EXCEPT !.raises = "no", !.mapped = m.game, !.x = x, !.raw = raw,
                         !.value = Clip(raw)]

(***************************************************************************)
(* Values of the variables a specification does not use.                   *)
(***************************************************************************)
NoMatch == [site |-> "idle", game |-> None, via |-> "idle"]
NoParse == [status |-> "idle", data |-> EmptyData]
NoParts == [site |-> "idle", value |-> <<>>]
NoDataset == [status |-> "idle", rows |-> <<>>]

MatchVarsIdle == game_name = None /\ mapped = NoMatch
ParseVarsIdle == log = <<>> /\ parsed = NoParse
SplitVarsIdle == variant = None /\ parts = NoParts
BuildVarsIdle == results_dir = {} /\ dataset = NoDataset
NoRun == [pc |-> "idle", run |-> 0]
NoRead == [pc |-> "idle"]
PersistVarsIdle == OUT_METRICS = Absent /\ tuner = NoRun /\ reader = NoRead
TunerVarsIdle ==
    /\ df = <<>> /\ OUT_MODEL = Absent /\ OUT_FEATURES = Absent /\ X = <<>>
    /\ prediction = NoCall
    /\ PersistVarsIdle

NoVals == [j \in DOMAIN PropCols |-> Num(0)]

(***************************************************************************)
(* SpecMatch: name matching at both call sites, over property tables of    *)
(* up to MaxGames rows and names of up to MaxNameLen characters.           *)
(***************************************************************************)
NameChars == {"H", "e", " "}
QueryNames == StringsUpTo(NameChars, MaxNameLen)
TableGames == {<<"H", "e">>, <<"H", " ", "e">>, <<"e", "H">>, <<"H">>, <<"e", "e">>}
MatchTables ==
    UNION {[1..k -> {[game |-> g, vals |-> NoVals] : g \in TableGames}] : k \in 0..MaxGames}

InitMatch ==
    /\ games_df \in MatchTables
    /\ MatchVarsIdle /\ ParseVarsIdle /\ SplitVarsIdle /\ BuildVarsIdle /\ TunerVarsIdle

\* build_dataset resolves the game name parsed from a log: stripped, not empty
ResolveInBuild(name) ==
    /\ name # <<>> /\ Strip(name) = name
    /\ game_name' = name
    /\ mapped' = [site |-> "build", game |-> MatchGame(games_df, name).game,
                  via |-> MatchGame(games_df, name).via]
    /\ UNCHANGED <<games_df, log, parsed, variant, parts, results_dir, dataset, df,
                   OUT_MODEL, OUT_FEATURES, X, prediction>>
    /\ UNCHANGED persistVars

\* predict_winrate resolves the queried game name
ResolveInPredict(name) ==
    /\ game_name' = name
    /\ mapped' = [site |-> "predict", game |-> MatchGamePredict(games_df, name).game,
                  via |-> MatchGamePredict(games_df, name).via]
    /\ UNCHANGED <<games_df, log, parsed, variant, parts, results_dir, dataset, df,
                   OUT_MODEL, OUT_FEATURES, X, prediction>>
    /\ UNCHANGED persistVars

NextMatch ==
    \/ \E name \in QueryNames : ResolveInBuild(name)
    \/ \E name \in QueryNames : ResolveInPredict(name)

SpecMatch == InitMatch /\ [][NextMatch]_vars

(***************************************************************************)
(* SpecParse: parse_out_file over logs of up to MaxLines lines.            *)
(***************************************************************************)
ParseLinePool ==
    { Blank, Text,
      Labelled("Game:", <<"H", "e", "x">>),
      Labelled("GAME:", <<" ", "H", "e", " ">>),
      Labelled("Game:", <<" ">>),
      Labelled("Variant:", <<"A", "|", "B">>),
      Labelled("variant:", <<"B">>),
      Summary(<<"2">>, <<"2">>, <<"1">>, <<"2", ".", "5">>),
      Summary(<<"1", "0">>, <<"1", "0">>, <<"7">>, <<"4", "0">>),
      Summary(<<"3">>, <<"3">>, <<"2">>, <<"1", ".", "2", ".", "3">>),
      Summary(<<"3">>, <<"3">>, <<"2">>, <<>>) }

InitParse ==
    /\ log \in StringsUpTo(ParseLinePool, MaxLines)
    /\ parsed = NoParse
    /\ games_df = <<>>
    /\ MatchVarsIdle /\ SplitVarsIdle /\ BuildVarsIdle /\ TunerVarsIdle

ParseOutFile ==
    /\ parsed' = parse_out_file(log)
    /\ UNCHANGED <<games_df, game_name, mapped, log, variant, parts, results_dir,
                   dataset, df, OUT_MODEL, OUT_FEATURES, X, prediction>>
    /\ UNCHANGED persistVars

NextParse == ParseOutFile

SpecParse == InitParse /\ [][NextParse]_vars

(***************************************************************************)
(* SpecSplit: variant splitting at both call sites, over variant strings   *)
(* of up to MaxVariantLen characters.                                      *)
(***************************************************************************)
VariantChars == {"A", "B", "|", " "}

InitSplit ==
    /\ variant \in StringsUpTo(VariantChars, MaxVariantLen) \cup {None}
    /\ parts = NoParts
    /\ games_df = <<>>
    /\ MatchVarsIdle /\ ParseVarsIdle /\ BuildVarsIdle /\ TunerVarsIdle

\* build_dataset splits parsed['variant'], None when the log had no Variant line
SplitInBuild ==
    /\ parts' = [site |-> "build", value |-> SplitVariant(variant)]
    /\ UNCHANGED <<games_df, game_name, mapped, log, parsed, variant, results_dir,
                   dataset, df, OUT_MODEL, OUT_FEATURES, X, prediction>>
    /\ UNCHANGED persistVars

\* predict_winrate splits its variant argument, a str
SplitInPredict ==
    /\ variant # None
    /\ parts' = [site |-> "predict", value |-> SplitVariantPredict(variant)]
    /\ UNCHANGED <<games_df, game_name, mapped, log, parsed, variant, results_dir,
                   dataset, df, OUT_MODEL, OUT_FEATURES, X, prediction>>
    /\ UNCHANGED persistVars

NextSplit == SplitInBuild \/ SplitInPredict

SpecSplit == InitSplit /\ [][NextSplit]_vars

(***************************************************************************)
(* Spec: build_dataset over results directories of up to MaxJobs jobs.     *)
(***************************************************************************)
Hex == <<"H", "e", "x">>
Hexa == <<"H", "e", "x", "a">>
GameLine(name) == Labelled("Game:", name)
VariantLine == Labelled("Variant:", <<"A", "|", "B">>)
GoodSummary == Summary(<<"2">>, <<"2">>, <<"1">>, <<"2", ".", "5">>)
ZeroSummary == Summary(<<"0">>, <<"2">>, <<"0">>, <<"0">>)
BadSummary == Summary(<<"2">>, <<"2">>, <<"1">>, <<"1", ".", "2", ".", "3">>)

BuildLogs ==
    { <<GameLine(Hex), VariantLine, GoodSummary>>,
      <<GameLine(Hex), VariantLine, ZeroSummary>>,
      <<VariantLine, GoodSummary>>,
      <<GameLine(<<"B">>), GoodSummary>>,
      <<GameLine(<<"h", "e">>), Meta(<<"0", ".", "5">>), GoodSummary>>,
      <<GameLine(Hex), BadSummary>>,
      <<GameLine(Hex)>> }

HexRow == [game |-> Hex, vals |-> <<Num(3), NanNum>>]
HexaRow == [game |-> Hexa, vals |-> <<Num(1), Num(2)>>]
BuildTables == {<<HexRow, HexaRow>>, <<HexaRow>>}

ErrStats == {Num(0), Num(7), OSError}

\* the .out and .err files one job may have left
JobFiles(b) ==
    LET errs == {{}} \cup {{File(b, "err", st, <<>>)} : st \in ErrStats}
        outs == {{}} \cup {{File(b, "out", Num(Len(ls)), ls)} : ls \in BuildLogs}
    IN {e \cup o : e \in errs, o \in outs}

RECURSIVE Dirs(_)
Dirs(n) == IF n = 0 THEN {{}} ELSE {d \cup j : d \in Dirs(n - 1), j \in JobFiles(n)}

Init ==
    /\ games_df \in BuildTables
    /\ results_dir \in Dirs(MaxJobs)
    /\ dataset = NoDataset
    /\ MatchVarsIdle /\ ParseVarsIdle /\ SplitVarsIdle /\ TunerVarsIdle

BuildDataset ==
    /\ dataset' = build_dataset(results_dir, games_df)
    /\ UNCHANGED <<games_df, game_name, mapped, log, parsed, variant, parts,
                   results_dir, df, OUT_MODEL, OUT_FEATURES, X, prediction>>
    /\ UNCHANGED persistVars

Next == BuildDataset

Spec == Init /\ [][Next]_vars

(***************************************************************************)
(* SpecPredict: the tuner builds the matrix and the schema from a dataset  *)
(* of up to MaxRows rows and saves the artifacts; predict_winrate is       *)
(* called before and after.                                                *)
(***************************************************************************)
PredictTable == <<HexRow, HexaRow>>
TrainVariants == {<<"A", "|", "B">>, <<"B", "|", "B">>, None}
PredictNames == {Hex, <<"h", "e", "x", "a">>, <<"B">>}
PredictVariants ==
    { <<"A", "|", "B">>, <<"B", "|", "A">>, <<>>,
      <<" ", "A", " ", "|", "B", "|", "|", "|", "A">> }

\* the row build_dataset writes for a job of this game and variant
TrainRow(base, g, v) ==
    MakeRow(base, g,
            [EmptyData EXCEPT !.game = g, !.variant = v, !.wins = Num(1), !.games = Num(2),
                              !.avgMoves = ParseFloat(<<"9">>)],
            <<>>, PredictTable)

Datasets ==
    UNION {[1..k -> {Hex, Hexa} \X TrainVariants] : k \in 1..MaxRows}

InitPredict ==
    /\ games_df = PredictTable
    /\ \E d \in Datasets :
           df = load_dataset([i \in DOMAIN d |-> TrainRow(i, d[i][1], d[i][2])])
    /\ OUT_MODEL = Absent /\ OUT_FEATURES = Absent /\ X = <<>> /\ prediction = NoCall
    /\ MatchVarsIdle /\ ParseVarsIdle /\ SplitVarsIdle /\ BuildVarsIdle
    /\ PersistVarsIdle

\* main of tune_krr_winrate.py: build_feature_matrix, then tune_and_save
\* writes the fitted pipeline and the feature names
TuneAndSave ==
    /\ X' = build_feature_matrix(df).X
    /\ OUT_MODEL' = Stored(<<"pipeline">>)
    /\ OUT_FEATURES' = Stored(build_feature_matrix(df).feature_names)
    /\ OUT_METRICS' = Stored(<<"metrics">>)
    /\ UNCHANGED <<games_df, game_name, mapped, log, parsed, variant, parts,
                   results_dir, dataset, df, prediction, tuner, reader>>

PredictWinrate(name, v, raw) ==
    /\ prediction' = predict_winrate(OUT_MODEL, OUT_FEATURES, games_df, name, v, raw)
    /\ UNCHANGED <<games_df, game_name, mapped, log, parsed, variant, parts,
                   results_dir, dataset, df, OUT_MODEL, OUT_FEATURES, X>>
    /\ UNCHANGED persistVars

NextPredict ==
    \/ TuneAndSave
    \/ \E name \in PredictNames, v \in PredictVariants, raw \in RawOutputs :
           PredictWinrate(name, v, raw)

SpecPredict == InitPredict /\ [][NextPredict]_vars

(***************************************************************************)
(* SpecPersist: runs of the tuner's main interleaved with calls of         *)
(* predict_winrate.  joblib.dump(best, OUT_MODEL) and open(path, 'w') write *)
(* to the final path: from the open to the close the path is a file whose  *)
(* content is incomplete.  predict_winrate tests the paths, then loads the *)
(* model, then the feature names; tuner steps can fall between.  The plot  *)
(* (OUT_PLOT) is written last and read by nobody; it is left out.          *)
(***************************************************************************)
MaxRuns == 2

\* a path opened for writing by run r and not closed yet
Opened(r) == [isfile |-> TRUE, complete |-> FALSE, run |-> r]
\* a path written and closed by run r
Closed(c, r) == [isfile |-> TRUE, complete |-> TRUE, content |-> c, run |-> r]

\* what joblib.load and json.load raise on an incomplete file
PickleErrors == {"EOFError", "UnpicklingError"}
JsonErrors == {"JSONDecodeError"}

PersistDatasets ==
    { << <<Hex, <<"A", "|", "B">> >> >>,
      << <<Hex, <<"B", "|", "B">> >> >>,
      << <<Hex, <<"A", "|", "B">> >>, <<Hexa, <<"B", "|", "B">> >> >> }
PersistVariants == {<<"A", "|", "B">>}
PersistRaw == {Num(1), Num(2)}

InitPersist ==
    /\ games_df = PredictTable
    /\ MatchVarsIdle /\ ParseVarsIdle /\ SplitVarsIdle /\ BuildVarsIdle /\ TunerVarsIdle

\* main, lines 202-204, and tune_and_save up to the fit and the metrics
LoadAndFit(d) ==
    /\ tuner.pc = "idle" /\ tuner.run < MaxRuns
    /\ df' = load_dataset([i \in DOMAIN d |-> TrainRow(i, d[i][1], d[i][2])])
    /\ X' = build_feature_matrix(df').X
    /\ tuner' = [pc |-> "fitted", run |-> tuner.run + 1]
    /\ UNCHANGED <<games_df, game_name, mapped, log, parsed, variant, parts,
                   results_dir, dataset, OUT_MODEL, OUT_FEATURES, prediction,
                   OUT_METRICS, reader>>

\* joblib.dump(best, OUT_MODEL) opens the path and truncates it
OpenModel ==
    /\ tuner.pc = "fitted"
    /\ OUT_MODEL' = Opened(tuner.run)
    /\ tuner' = [tuner EXCEPT !.pc = "model_open"]
    /\ UNCHANGED <<games_df, game_name, mapped, log, parsed, variant, parts,
                   results_dir, dataset, df, OUT_FEATURES, X, prediction,
                   OUT_METRICS, reader>>

\* joblib.dump returns: the pipeline fitted on this run's columns is on disk
CloseModel ==
    /\ tuner.pc = "model_open"
    /\ OUT_MODEL' = Closed([fit_on |-> build_feature_matrix(df).feature_names], tuner.run)
    /\ tuner' = [tuner EXCEPT !.pc = "model_saved"]
    /\ UNCHANGED <<games_df, game_name, mapped, log, parsed, variant, parts,
                   results_dir, dataset, df, OUT_FEATURES, X, prediction,
                   OUT_METRICS, reader>>

\* open(OUT_FEATURES, 'w')
OpenFeatures ==
    /\ tuner.pc = "model_saved"
    /\ OUT_FEATURES' = Opened(tuner.run)
    /\ tuner' = [tuner EXCEPT !.pc = "features_open"]
    /\ UNCHANGED <<games_df, game_name, mapped, log, parsed, variant, parts,
                   results_dir, dataset, df, OUT_MODEL, X, prediction,
                   OUT_METRICS, reader>>

\* json.dump(feature_names, fh) and the end of the with block
CloseFeatures ==
    /\ tuner.pc = "features_open"
    /\ OUT_FEATURES' = Closed(build_feature_matrix(df).feature_names, tuner.run)
    /\ tuner' = [tuner EXCEPT !.pc = "features_saved"]
    /\ UNCHANGED <<games_df, game_name, mapped, log, parsed, variant, parts,
                   results_dir, dataset, df, OUT_MODEL, X, prediction,
                   OUT_METRICS, reader>>

\* open(OUT_METRICS, 'w')
OpenMetrics ==
    /\ tuner.pc = "features_saved"
    /\ OUT_METRICS' = Opened(tuner.run)
    /\ tuner' = [tuner EXCEPT !.pc = "metrics_open"]
    /\ UNCHANGED <<games_df, game_name, mapped, log, parsed, variant, parts,
                   results_dir, dataset, df, OUT_MODEL, OUT_FEATURES, X, prediction,
                   reader>>

\* json.dump(metrics, fh) and the end of the with block; the run is over
CloseMetrics ==
    /\ tuner.pc = "metrics_open"
    /\ OUT_METRICS' = Closed(<<"metrics">>, tuner.run)
    /\ tuner' = [tuner EXCEPT !.pc = "idle"]
    /\ UNCHANGED <<games_df, game_name, mapped, log, parsed, variant, parts,
                   results_dir, dataset, df, OUT_MODEL, OUT_FEATURES, X, prediction,
                   reader>>

Raised(name, v, exc) == [NoCall EXCEPT !.raises = exc, !.game_name = name, !.variant = v]

\* lines 137-138: a new call tests both paths
CheckArtifacts(name, v) ==
    /\ reader.pc \in {"idle", "done", "failed"}
    /\ IF ~OUT_MODEL.isfile \/ ~OUT_FEATURES.isfile
       THEN /\ prediction' = Raised(name, v, "FileNotFoundError")
            /\ reader' = [pc |-> "failed", game_name |-> name, variant |-> v]
       ELSE /\ reader' = [pc |-> "checked", game_name |-> name, variant |-> v]
            /\ UNCHANGED prediction
    /\ UNCHANGED <<games_df, game_name, mapped, log, parsed, variant, parts,
                   results_dir, dataset, df, OUT_MODEL, OUT_FEATURES, X,
                   OUT_METRICS, tuner>>

\* line 139: joblib.load(OUT_MODEL) of the file as it is now
LoadModel ==
    /\ reader.pc = "checked"
    /\ IF OUT_MODEL.complete
       THEN /\ reader' = [pc |-> "model_loaded", game_name |-> reader.game_name,
                          variant |-> reader.variant, model |-> OUT_MODEL]
            /\ UNCHANGED prediction
       ELSE /\ \E exc \in PickleErrors :
                   prediction' = Raised(reader.game_name, reader.variant, exc)
            /\ reader' = [reader EXCEPT !.pc = "failed"]
    /\ UNCHANGED <<games_df, game_name, mapped, log, parsed, variant, parts,
                   results_dir, dataset, df, OUT_MODEL, OUT_FEATURES, X,
                   OUT_METRICS, tuner>>

\* lines 140-141: json.load of OUT_FEATURES as it is now
LoadFeatures ==
    /\ reader.pc = "model_loaded"
    /\ IF OUT_FEATURES.complete
       THEN /\ reader' = [pc |-> "loaded", game_name |-> reader.game_name,
                          variant |-> reader.variant, model |-> reader.model,
                          features |-> OUT_FEATURES]
            /\ UNCHANGED prediction
       ELSE /\ \E exc \in JsonErrors :
                   prediction' = Raised(reader.game_name, reader.variant, exc)
            /\ reader' = [reader EXCEPT !.pc = "failed"]
    /\ UNCHANGED <<games_df, game_name, mapped, log, parsed, variant, parts,
                   results_dir, dataset, df, OUT_MODEL, OUT_FEATURES, X,
                   OUT_METRICS, tuner>>

\* lines 143-198 with what was loaded; the pipeline's scaler rejects a
\* vector that has not the number of columns it was fitted on
FinishPredict(raw) ==
    /\ reader.pc = "loaded"
    /\ LET p == predict_winrate(reader.model, reader.features, games_df,
                                reader.game_name, reader.variant, raw)
       IN prediction' =
              IF p.raises = "no" /\ Len(p.x) # Len(reader.model.content.fit_on)
              THEN Raised(reader.game_name, reader.variant, "ValueError")
              ELSE p
    /\ reader' = [reader EXCEPT !.pc = "done"]
    /\ UNCHANGED <<games_df, game_name, mapped, log, parsed, variant, parts,
                   results_dir, dataset, df, OUT_MODEL, OUT_FEATURES, X,
                   OUT_METRICS, tuner>>

NextPersist ==
    \/ \E d \in PersistDatasets : LoadAndFit(d)
    \/ OpenModel
    \/ CloseModel
    \/ OpenFeatures
    \/ CloseFeatures
    \/ OpenMetrics
    \/ CloseMetrics
    \/ \E name \in PredictNames, v \in PersistVariants : CheckArtifacts(name, v)
    \/ LoadModel
    \/ LoadFeatures
    \/ \E raw \in PersistRaw : FinishPredict(raw)

SpecPersist == InitPersist /\ [][NextPersist]_vars

(***************************************************************************)
(* Properties.                                                             *)
(***************************************************************************)

\* C1 (Spec): whenever build_dataset returns, no row of the dataset has the
\* job_base of a job whose .err file exists with size greater than zero,
\* whatever the .out file of that job holds.
FailedJobsAbsent ==
    dataset.status = "ok" =>
        \A f \in results_dir :
            (f.ext = "err" /\ f.stat # OSError /\ f.stat.num > 0) =>
                \A r \in DOMAIN dataset.rows : dataset.rows[r].job_base # f.base

\* a job with a non-empty .err file and a fully usable .out file was left
\* out, next to a job that was kept
FailedJobSkipped ==
    /\ dataset.status = "ok"
    /\ dataset.rows # <<>>
    /\ \E f \in results_dir, g \in results_dir :
           /\ f.ext = "err" /\ f.stat # OSError /\ f.stat.num > 0
           /\ g.ext = "out" /\ g.base = f.base
           /\ g.lines = <<GameLine(Hex), VariantLine, GoodSummary>>

\* C2 (Spec): whenever build_dataset returns, every row has games > 0 and
\* winrate = wins / games; a job whose summary line reports completed=0 is
\* not in the dataset.
RowsHaveGames ==
    dataset.status = "ok" =>
        \A r \in DOMAIN dataset.rows :
            LET row == dataset.rows[r]
            IN /\ row.games.num > 0
               /\ row.winrate # NanNum
               /\ row.winrate.num * row.games.num = row.wins.num * row.winrate.den

\* C6 (SpecParse): parse_out_file raises for no log, and a field for which
\* no line of the log matches is null in the record it returns.
GameLines == {i \in DOMAIN log : log[i].kind # "blank" /\ GAME_RE(log[i])}
VariantLines ==
    {i \in DOMAIN log : log[i].kind # "blank" /\ ~GAME_RE(log[i]) /\ VARIANT_RE(log[i])}
SummaryLines ==
    {i \in DOMAIN log : /\ log[i].kind # "blank"
                        /\ ~GAME_RE(log[i]) /\ ~VARIANT_RE(log[i])
                        /\ COMPLETED_RE(log[i])}
ParseNeverRaises ==
    parsed.status # "idle" =>
        /\ parsed.status = "ok"
        /\ GameLines = {} => parsed.data.game = None
        /\ VariantLines = {} => parsed.data.variant = None
        /\ SummaryLines = {} =>
               /\ parsed.data.wins = NoneNum
               /\ parsed.data.games = NoneNum
               /\ parsed.data.avgMoves = NoneNum

FirstOf(S) == CHOOSE i \in S : \A j \in S : i <= j
LastOf(S) == CHOOSE i \in S : \A j \in S : j <= i

\* the record holds, for each field with a matching line, the value of the
\* line Pick selects among the matching ones
FieldsTakenFrom(Pick(_)) ==
    /\ GameLines # {} => parsed.data.game = Strip(log[Pick(GameLines)].text)
    /\ VariantLines # {} => parsed.data.variant = Strip(log[Pick(VariantLines)].text)
    /\ SummaryLines # {} =>
           LET line == log[Pick(SummaryLines)]
           IN /\ parsed.data.wins = Num(ParseInt(line.wins))
              /\ parsed.data.games = Num(ParseInt(line.completed))
              /\ parsed.data.avgMoves = ParseFloat(FloatToken(line.avg))

\* C7 as stated (SpecParse): each of game, variant and (wins, games,
\* avgMoves) is taken from the first matching line of the log.
FirstMatchWins == parsed.status = "ok" => FieldsTakenFrom(FirstOf)

\* C7 as amended (SpecParse): whenever parse_out_file returns, each of game,
\* variant and (wins, games, avgMoves) is taken from the last matching line
\* of the log.
LastMatchWins == parsed.status = "ok" => FieldsTakenFrom(LastOf)

\* a log with two summary lines of different counts and two Game lines of
\* different names was parsed
DuplicateLinesParsed ==
    /\ parsed.status = "ok"
    /\ \/ \E i \in SummaryLines, j \in SummaryLines :
              i < j /\ log[i].wins # log[j].wins /\ log[i].completed # log[j].completed
       \/ \E i \in GameLines, j \in GameLines :
              i < j /\ Strip(log[i].text) # Strip(log[j].text)
    /\ parsed.data.wins # NoneNum
    /\ parsed.data.game # None

\* C8 (SpecMatch): at both call sites, when the table has a game whose
\* normalized name equals the normalized query, the name returned has that
\* normalized form and comes from the exact lookup; the fuzzy scan decides
\* only when no game matches exactly.
HasExact ==
    \E i \in DOMAIN games_df :
        normalize_name(games_df[i].game) = normalize_name(game_name)
ExactPreferred ==
    mapped.site # "idle" =>
        /\ HasExact => /\ mapped.via = "exact"
                       /\ normalize_name(mapped.game) = normalize_name(game_name)
        /\ mapped.via = "fuzzy" => ~HasExact

\* an exact match was returned although an earlier row of the table
\* qualifies for the fuzzy scan
ExactBeatsFuzzy ==
    /\ mapped.site = "build"
    /\ mapped.via = "exact"
    /\ FuzzyScan(norm_to_game(games_df), normalize_name(game_name)) # mapped.game

\* C9 (SpecMatch): a fuzzy match of a query that has a letter or a digit
\* returns the same canonical name for every ordering of the rows of the
\* property table.
Reorderings(t) == {[i \in DOMAIN t |-> t[p[i]]] : p \in Permutations(DOMAIN t)}
FuzzyOrderIndependent ==
    (mapped.via = "fuzzy" /\ normalize_name(game_name) # <<>>) =>
        \A t \in Reorderings(games_df) :
            /\ mapped.site = "build" => MatchGame(t, game_name).game = mapped.game
            /\ mapped.site = "predict" => MatchGamePredict(t, game_name).game = mapped.game

\* C10 (SpecSplit): at both call sites the variant yields exactly 4
\* components: the n-th is the n-th '|'-separated token of the string, with
\* surrounding whitespace removed, for n up to the number of tokens, and
\* empty beyond; tokens after the 4th are dropped; an absent variant yields
\* four empty strings.
BarsOf(s) == {i \in DOMAIN s : s[i] = "|"}
TokenCount(s) == Cardinality(BarsOf(s)) + 1
NthBar(s, n) == CHOOSE i \in BarsOf(s) : Cardinality({j \in BarsOf(s) : j <= i}) = n
Segment(s, n) ==
    SubSeq(s, IF n = 1 THEN 1 ELSE NthBar(s, n - 1) + 1,
              IF n = TokenCount(s) THEN Len(s) ELSE NthBar(s, n) - 1)
FourComponents ==
    parts.site # "idle" =>
        /\ Len(parts.value) = 4
        /\ \A n \in 1..4 :
               parts.value[n] =
                   IF variant # None /\ n <= TokenCount(variant)
                   THEN Strip(Segment(variant, n))
                   ELSE <<>>

\* a variant with a non-empty fifth token was split in build_dataset
FifthTokenDropped ==
    /\ parts.site = "build"
    /\ variant # None
    /\ TokenCount(variant) > 4
    /\ Segment(variant, 5) # <<>>

\* C3 (SpecPredict): the vector predict_winrate builds is as long as the
\* persisted schema, its i-th entry is the value for the i-th name (the
\* matched game's property for 'game_<prop>', the 0/1 indicator for
\* '<component>=<value>'), and for a row of the tuning dataset the vector
\* built from the row's game and variant is that row of the matrix of
\* build_feature_matrix.
RowVariant(row) == IF row.variant = NaN THEN <<>> ELSE row.variant
ColumnOf(prop) == CHOOSE j \in DOMAIN PropCols : PropCols[j] = prop
ComponentOf(comp) == CHOOSE c \in DOMAIN comp_cols : comp_cols[c] = comp
SchemaEntry(name, props, ps) ==
    IF name[1] = "game_"
    THEN IF props.vals[ColumnOf(name[2])] = NanNum THEN Num(0)
         ELSE props.vals[ColumnOf(name[2])]
    ELSE IF ps[ComponentOf(name[1])] = SubSeq(name, 3, Len(name)) THEN Num(1) ELSE Num(0)
IndicatorsOf(names, comp) ==
    {i \in DOMAIN names : names[i][1] = comp /\ Len(names[i]) >= 2 /\ names[i][2] = "="}
Vocabulary(names, comp) ==
    {SubSeq(names[i], 3, Len(names[i])) : i \in IndicatorsOf(names, comp)}
UnseenValueIsZero ==
    /\ prediction.raises = "ValueError" =>
           MatchGamePredict(games_df, prediction.game_name).game = None
    /\ prediction.raises = "FileNotFoundError" => prediction.x = <<>>
    /\ prediction.raises = "no" =>
           LET names == OUT_FEATURES.content
               ps == SplitVariantPredict(prediction.variant)
           IN /\ names = build_feature_matrix(df).feature_names
              /\ Len(prediction.x) = Len(names)
              /\ \A c \in DOMAIN comp_cols :
                     ps[c] \notin Vocabulary(names, comp_cols[c]) =>
                         \A i \in IndicatorsOf(names, comp_cols[c]) :
                             prediction.x[i] = Num(0)

\* a query whose value for one component is unseen there but is in the
\* vocabulary of another component was encoded
UnseenElsewhereKnown ==
    /\ prediction.raises = "no"
    /\ LET names == OUT_FEATURES.content
           ps == SplitVariantPredict(prediction.variant)
       IN \E c \in DOMAIN comp_cols, c2 \in DOMAIN comp_cols :
              /\ c # c2
              /\ ps[c] # <<>>
              /\ IndicatorsOf(names, comp_cols[c]) # {}
              /\ ps[c] \notin Vocabulary(names, comp_cols[c])
              /\ ps[c] \in Vocabulary(names, comp_cols[c2])

\* C5 (SpecPredict): every value predict_winrate returns lies in [0,1],
\* whatever the regressor's raw output: below 0, above 1 or non-finite.
PredictionInUnitInterval ==
    prediction.raises = "no" =>
        /\ prediction.value # NanNum
        /\ prediction.value.num >= ClipLo
        /\ prediction.value.num <= ClipHi

\* C11 (SpecPredict): a call of predict_winrate returns a value only when
\* krr_kcv_model.joblib and krr_feature_names.json are both files and the
\* name resolves against the property table; when either file is absent it
\* raises FileNotFoundError, whether or not the name would resolve; when
\* both are there and the name resolves to no game it raises ValueError.
ArtifactsPresent == OUT_MODEL.isfile /\ OUT_FEATURES.isfile
Resolves(name) == MatchGamePredict(games_df, name).game # None
PredictErrorContract ==
    [][prediction' # prediction =>
           /\ prediction'.raises \in {"no", "FileNotFoundError", "ValueError"}
           /\ prediction'.raises = "no" =>
                  /\ ArtifactsPresent
                  /\ Resolves(prediction'.game_name)
                  /\ prediction'.value # NoneNum
                  /\ prediction'.mapped = MatchGamePredict(games_df, prediction'.game_name).game
           /\ ~ArtifactsPresent => prediction'.raises = "FileNotFoundError"
           /\ (ArtifactsPresent /\ ~Resolves(prediction'.game_name)) =>
                  prediction'.raises = "ValueError"
           /\ prediction'.raises # "no" => prediction'.value = NoneNum]_vars

\* a name that resolves to no game was queried before the tuner had run, and
\* the call raised for the missing artifacts
UnknownGameBeforeTuning ==
    /\ prediction.raises = "FileNotFoundError"
    /\ ~ArtifactsPresent
    /\ ~Resolves(prediction.game_name)

\* C12 (SpecPersist): a call of predict_winrate that overlaps a run of the
\* tuner never reads a model or a feature-name file that is still being
\* written, and never holds a model and feature names written by different
\* runs.
NoPartialArtifactRead ==
    prediction.raises \notin PickleErrors \cup JsonErrors
NoMixedRuns ==
    reader.pc \in {"loaded", "done"} => reader.model.run = reader.features.run
AtomicPersistence == NoPartialArtifactRead /\ NoMixedRuns

====
